---- MODULE Spec2Model ----
(***************************************************************************)
(* Kitsune AI V3: the RuneScape-style progression engine                   *)
(* (src/kitsune_rs_master_clean.py) as a state machine.                    *)
(*                                                                         *)
(* XP is a Python float in the source; every amount the engine produces is *)
(* a whole number (an integer table amount times 1.0 or 2.0), so XP is     *)
(* modelled as an integer.                                                 *)
(***************************************************************************)
EXTENDS Integers, Sequences, FiniteSets, TLC

VARIABLES
    skills,              \* TailProgression.skills: name -> [level, xp]
    total_interactions,  \* TailProgression.total_interactions
    completed,           \* AchievementDiary.completed
    current_mood,        \* KitsuneMoodSystem.current_mood
    mood_duration,       \* KitsuneMoodSystem.mood_duration
    interaction_count,   \* KitsuneMoodSystem.interaction_count
    events,              \* CycleEventHandler.events
    cycle_count,         \* CycleEventHandler.cycle_count
    xp_multiplier,       \* RuneScapeKitsuneAI.xp_multiplier
    hist,                \* history: what the scheduler's callbacks have done so far
    ret,                 \* the last call made and what it returned
    nops,                \* number of calls made so far
    save_file,           \* the save file of KitsuneSaveSystem, as load_progress finds it
    session_start        \* RuneScapeKitsuneAI.session_start, as the number of the session

vars == <<skills, total_interactions, completed, current_mood, mood_duration,
          interaction_count, events, cycle_count, xp_multiplier, hist, ret, nops,
          save_file, session_start>>

\* Python's None where a string is expected, and where a level-up event is
None == "None"

NoEvent == [skill |-> None]

\* the save file does not exist
NoFile == [kind |-> "missing"]

----------------------------------------------------------------------------
(* RSExperienceSystem *)

MAX_LEVEL == 99

\* floor(lvl + 300.0 * 2^(lvl / 7.0)) for lvl = 1..100, the term both loops add
\* to `points` (TLC has no reals: the values are the ones the expression yields).
PointsTable == <<
    332, 367, 406, 449, 497, 549, 607, 670, 740, 817,
    902, 996, 1099, 1214, 1339, 1478, 1632, 1801, 1987, 2193,
    2421, 2671, 2948, 3254, 3591, 3963, 4374, 4828, 5328, 5881,
    6491, 7164, 7908, 8728, 9635, 10635, 11739, 12958, 14304, 15790,
    17430, 19242, 21241, 23449, 25886, 28577, 31547, 34827, 38449, 42447,
    46861, 51734, 57115, 63055, 69614, 76856, 84851, 93678, 103424, 114184,
    126064, 139181, 153663, 169652, 187305, 206796, 228315, 252075, 278307, 307270,
    339247, 374552, 413533, 456571, 504089, 556552, 614477, 678430, 749040, 827001,
    913075, 1008110, 1113036, 1228884, 1356790, 1498009, 1653929, 1826077, 2016145, 2225996,
    2457691, 2713502, 2995940, 3307778, 3652074, 4032208, 4451909, 4915298, 5426919, 5991795 >>

\* `points` after the loop body has run for lvl = 1..n (the running sum both
\* loops keep), summed by halves to keep the evaluation shallow
RECURSIVE SumPoints(_, _)
SumPoints(a, b) ==
    IF a > b THEN 0
    ELSE IF a = b THEN PointsTable[a]
    ELSE SumPoints(a, (a + b) \div 2) + SumPoints((a + b) \div 2 + 1, b)

PointsAfter == [n \in 0..Len(PointsTable) |-> SumPoints(1, n)]

\* `output` as assigned in iteration lvl: int(math.floor(points / 4))
OutputAt(lvl) == PointsAfter[lvl] \div 4

\* get_xp_for_level: the loop returns in iteration lvl = level, before `output` is
\* reassigned, so it returns the output of iteration level - 1 (0 for level 1);
\* for level < 1 the loop body never runs and the function returns 0
get_xp_for_level(level) ==
    IF level < 1 THEN 0
    ELSE IF level = 1 THEN 0
    ELSE OutputAt(level - 1)

\* the scan with the comparison off by one (output >= xp)
get_level_for_xp_off_by_one(xp) ==
    LET hits == {lvl \in 1..MAX_LEVEL : OutputAt(lvl) >= xp}
    IN  IF hits = {} THEN MAX_LEVEL
        ELSE CHOOSE lvl \in hits : \A other \in hits : lvl <= other

\* the scan over range(1, 101)
get_level_for_xp_to_100(xp) ==
    LET hits == {lvl \in 1..(MAX_LEVEL + 1) : (OutputAt(lvl) - 1) >= xp}
    IN  IF hits = {} THEN MAX_LEVEL + 1
        ELSE CHOOSE lvl \in hits : \A other \in hits : lvl <= other

\* get_level_for_xp: the first lvl of range(1, 100) with (output - 1) >= xp, and 99
\* when the loop ends without one
get_level_for_xp(xp) ==
    LET hits == {lvl \in 1..MAX_LEVEL : (OutputAt(lvl) - 1) >= xp}
    IN  IF hits = {} THEN MAX_LEVEL
        ELSE CHOOSE lvl \in hits : \A other \in hits : lvl <= other

----------------------------------------------------------------------------
(* TailProgression *)

SKILL_NAMES == <<"Wisdom", "Helpfulness", "Creativity", "Analysis", "Learning",
                 "Patience", "Empathy", "Problem-Solving", "Communication">>

SkillSet == {SKILL_NAMES[i] : i \in 1..Len(SKILL_NAMES)}

InitSkills == [s \in SkillSet |-> [level |-> 1, xp |-> 0]]

\* add_xp without the level recomputation
add_xp_skills_stale(sk, skill, amount, multiplier) ==
    IF skill \notin DOMAIN sk THEN sk
    ELSE [sk EXCEPT ![skill].xp = @ + amount * multiplier]

\* add_xp creating the entry of a name it does not know
add_xp_skills_autocreate(sk, skill, amount, multiplier) ==
    LET final_amount == amount * multiplier
        new_xp == (IF skill \in DOMAIN sk THEN sk[skill].xp ELSE 0) + final_amount
    IN  [s \in DOMAIN sk \cup {skill} |->
            IF s = skill THEN [level |-> get_level_for_xp(new_xp), xp |-> new_xp]
            ELSE sk[s]]

\* add_xp's effect on the skill map (the map is untouched for an unknown name)
add_xp_skills(sk, skill, amount, multiplier) ==
    IF skill \notin DOMAIN sk THEN sk
    ELSE LET final_amount == amount * multiplier
             new_xp == sk[skill].xp + final_amount
         IN  [sk EXCEPT ![skill] = [level |-> get_level_for_xp(new_xp), xp |-> new_xp]]

\* add_xp returning an event on every call
add_xp_result_always(sk, skill, amount, multiplier) ==
    IF skill \notin DOMAIN sk THEN NoEvent
    ELSE [skill |-> skill, old_level |-> sk[skill].level,
          new_level |-> get_level_for_xp(sk[skill].xp + amount * multiplier),
          xp_gained |-> amount * multiplier]

\* add_xp's return value: a level-up event or None (NoEvent)
add_xp_result(sk, skill, amount, multiplier) ==
    IF skill \notin DOMAIN sk THEN NoEvent
    ELSE LET final_amount == amount * multiplier
             old_level == sk[skill].level
             new_level == get_level_for_xp(sk[skill].xp + final_amount)
         IN  IF new_level > old_level
             THEN [skill |-> skill, old_level |-> old_level,
                   new_level |-> new_level, xp_gained |-> final_amount]
             ELSE NoEvent

RECURSIVE SumLevels(_, _)
SumLevels(sk, names) ==
    IF names = {} THEN 0
    ELSE LET s == CHOOSE x \in names : TRUE
         IN  sk[s].level + SumLevels(sk, names \ {s})

get_total_level(sk) == SumLevels(sk, DOMAIN sk)

TAIL_THRESHOLDS == <<9, 50, 100, 200, 350, 500, 650, 800, 891>>

MAX_TAILS == 9

RECURSIVE TailScan(_, _, _)
TailScan(total_level, i, unlocked) ==
    IF i > Len(TAIL_THRESHOLDS) THEN unlocked
    ELSE IF total_level >= TAIL_THRESHOLDS[i]
         THEN TailScan(total_level, i + 1, unlocked + 1)
         ELSE unlocked

Min(a, b) == IF a <= b THEN a ELSE b

\* the scan without the final clamp
unlocked_tails_for_unclamped(total_level) == TailScan(total_level, 1, 1)

\* the scan counting the thresholds reached, from 0
unlocked_tails_for_from_zero(total_level) == Min(TailScan(total_level, 1, 0), MAX_TAILS)

\* get_unlocked_tails as a function of the total level it reads
unlocked_tails_for(total_level) == Min(TailScan(total_level, 1, 1), MAX_TAILS)

get_unlocked_tails(sk) == unlocked_tails_for(get_total_level(sk))

----------------------------------------------------------------------------
(* AchievementDiary *)

ACHIEVEMENTS == <<"first_interaction", "helpful_100", "level_10_all", "level_50_any",
                  "total_level_200", "level_99_any", "all_tails">>

AchievementIds == {ACHIEVEMENTS[i] : i \in 1..Len(ACHIEVEMENTS)}

\* the conditions with "more than 100 interactions" for helpful_100
AchievementConditionOver100(id, sk, interactions) ==
    CASE id = "first_interaction" -> interactions >= 1
      [] id = "helpful_100"       -> interactions > 100
      [] id = "level_10_all"      -> \A s \in DOMAIN sk : sk[s].level >= 10
      [] id = "level_50_any"      -> \E s \in DOMAIN sk : sk[s].level >= 50
      [] id = "total_level_200"   -> get_total_level(sk) >= 200
      [] id = "level_99_any"      -> \E s \in DOMAIN sk : sk[s].level >= 99
      [] id = "all_tails"         -> get_unlocked_tails(sk) >= 9

\* the condition check_achievements tests for one achievement
AchievementCondition(id, sk, interactions) ==
    CASE id = "first_interaction" -> interactions >= 1
      [] id = "helpful_100"       -> interactions >= 100
      [] id = "level_10_all"      -> \A s \in DOMAIN sk : sk[s].level >= 10
      [] id = "level_50_any"      -> \E s \in DOMAIN sk : sk[s].level >= 50
      [] id = "total_level_200"   -> get_total_level(sk) >= 200
      [] id = "level_99_any"      -> \E s \in DOMAIN sk : sk[s].level >= 99
      [] id = "all_tails"         -> get_unlocked_tails(sk) >= 9

\* the same checks without the `not in self.completed` guards
RECURSIVE CheckAchievementsUnguarded(_, _, _, _, _)
CheckAchievementsUnguarded(i, done, newly, sk, interactions) ==
    IF i > Len(ACHIEVEMENTS) THEN [completed |-> done, newly_completed |-> newly]
    ELSE LET id == ACHIEVEMENTS[i] IN
         IF AchievementCondition(id, sk, interactions)
         THEN CheckAchievementsUnguarded(i + 1, done \cup {id}, Append(newly, id),
                                         sk, interactions)
         ELSE CheckAchievementsUnguarded(i + 1, done, newly, sk, interactions)

RECURSIVE CheckAchievementsFrom(_, _, _, _, _)
CheckAchievementsFrom(i, done, newly, sk, interactions) ==
    IF i > Len(ACHIEVEMENTS) THEN [completed |-> done, newly_completed |-> newly]
    ELSE LET id == ACHIEVEMENTS[i] IN
         IF id \notin done /\ AchievementCondition(id, sk, interactions)
         THEN CheckAchievementsFrom(i + 1, done \cup {id}, Append(newly, id),
                                    sk, interactions)
         ELSE CheckAchievementsFrom(i + 1, done, newly, sk, interactions)

check_achievements_reemitting(done, sk, interactions) ==
    CheckAchievementsUnguarded(1, done, <<>>, sk, interactions)

\* check_achievements: the new awarded set and the list it returns
check_achievements(done, sk, interactions) ==
    CheckAchievementsFrom(1, done, <<>>, sk, interactions)

----------------------------------------------------------------------------
(* KitsuneMoodSystem *)

MOODS == <<"curious", "helpful", "playful", "wise", "content", "excited", "focused">>

MoodSet == {MOODS[i] : i \in 1..Len(MOODS)}

MOOD_LIMIT == 10

InitMood == [current_mood |-> "curious", mood_duration |-> 0, interaction_count |-> 0]

\* update_mood starting the duration count again on a type with a mood of its own
update_mood_restarting(m, interaction_type, pick) ==
    LET count == m.interaction_count + 1
        duration == m.mood_duration + 1
    IN  IF interaction_type = "coding"
        THEN [current_mood |-> "focused", mood_duration |-> 0,
              interaction_count |-> count]
        ELSE IF interaction_type = "question"
        THEN [current_mood |-> "helpful", mood_duration |-> 0,
              interaction_count |-> count]
        ELSE IF interaction_type = "creative"
        THEN [current_mood |-> "playful", mood_duration |-> 0,
              interaction_count |-> count]
        ELSE IF duration > MOOD_LIMIT
        THEN [current_mood |-> pick, mood_duration |-> 0, interaction_count |-> count]
        ELSE [current_mood |-> m.current_mood, mood_duration |-> duration,
              interaction_count |-> count]

\* update_mood; `pick` is what random.choice(self.MOODS) returns if it is called
update_mood(m, interaction_type, pick) ==
    LET count == m.interaction_count + 1
        duration == m.mood_duration + 1
    IN  IF interaction_type = "coding"
        THEN [current_mood |-> "focused", mood_duration |-> duration,
              interaction_count |-> count]
        ELSE IF interaction_type = "question"
        THEN [current_mood |-> "helpful", mood_duration |-> duration,
              interaction_count |-> count]
        ELSE IF interaction_type = "creative"
        THEN [current_mood |-> "playful", mood_duration |-> duration,
              interaction_count |-> count]
        ELSE IF duration > MOOD_LIMIT
        THEN [current_mood |-> pick, mood_duration |-> 0, interaction_count |-> count]
        ELSE [current_mood |-> m.current_mood, mood_duration |-> duration,
              interaction_count |-> count]

----------------------------------------------------------------------------
(* EmoteSystem and RandomEvents *)

EMOTES == << [id |-> "tail_wag", unlock_level |-> 1],
             [id |-> "fox_dance", unlock_level |-> 10],
             [id |-> "wise_nod", unlock_level |-> 25],
             [id |-> "magic_sparkle", unlock_level |-> 50],
             [id |-> "nine_tail_flourish", unlock_level |-> 99] >>

get_available_emotes(total_level) ==
    LET keep(e) == total_level >= e.unlock_level
    IN  [i \in 1..Len(SelectSeq(EMOTES, keep)) |-> SelectSeq(EMOTES, keep)[i].id]

\* what check_random_event can return: each event passes its random.random() test
\* or not, so any of the three or None
RANDOM_EVENT_OUTCOMES == {None, "Mysterious Fox", "XP Boost", "Memory Fragment"}

----------------------------------------------------------------------------
(* CycleEventHandler *)

\* Callbacks.  The engine registers its own three; "cb_steady" is a callback that
\* never raises and "cb_faulty" one that may raise on any invocation.
ENGINE_CALLBACKS == {"update_mood", "check_random_events", "reset_xp_multiplier"}

TEST_CALLBACKS == {"cb_steady", "cb_faulty"}

\* `id` stands for the identity of the dict object; the other fields are its items
NewEvent(id, owner, event_func, cycles) ==
    [id |-> id, owner |-> owner, function |-> event_func, cycles |-> cycles,
     cycles_passed |-> 0, running |-> TRUE]

add_event(evs, id, owner, event_func, cycles) ==
    Append(evs, NewEvent(id, owner, event_func, cycles))

\* the items list.remove compares (dict equality)
Items(e) == [owner |-> e.owner, function |-> e.function, cycles |-> e.cycles,
             cycles_passed |-> e.cycles_passed, running |-> e.running]

\* self.events.remove(event): drops the first element equal to event
RemoveEvent(evs, e) ==
    LET j == CHOOSE k \in 1..Len(evs) :
                 /\ Items(evs[k]) = Items(e)
                 /\ \A l \in 1..(k - 1) : Items(evs[l]) # Items(e)
    IN  [k \in 1..(Len(evs) - 1) |-> IF k < j THEN evs[k] ELSE evs[k + 1]]

IndexOfId(evs, id) == CHOOSE k \in 1..Len(evs) : evs[k].id = id

\* event["function"](): the callback's effect on the engine, and whether it raised.
\* oracle.raisers: the events whose callback raises if invoked on this tick;
\* oracle.mood_pick, oracle.rand_event: the random draws of this tick.
InvokeCallback(st, e, oracle) ==
    CASE e.function = "update_mood" ->
            [raised |-> FALSE, xp_multiplier |-> st.xp_multiplier,
             mood |-> update_mood(st.mood, "general", oracle.mood_pick)]
      [] e.function = "check_random_events" ->
            [raised |-> FALSE, mood |-> st.mood,
             xp_multiplier |-> IF oracle.rand_event = "XP Boost"
                               THEN 2 ELSE st.xp_multiplier]
      [] e.function = "reset_xp_multiplier" ->
            [raised |-> FALSE, mood |-> st.mood, xp_multiplier |-> 1]
      [] e.function = "cb_steady" ->
            [raised |-> FALSE, mood |-> st.mood, xp_multiplier |-> st.xp_multiplier]
      [] e.function = "cb_faulty" ->
            [raised |-> e.id \in oracle.raisers, mood |-> st.mood,
             xp_multiplier |-> st.xp_multiplier]

\* one iteration of process_cycle's loop, with the elapsed counter never reset
ProcessEventNoReset(st, id, oracle) ==
    LET j == IndexOfId(st.events, id)
        e == st.events[j]
        passed == e.cycles_passed + 1
        out == InvokeCallback(st, e, oracle)
    IN  IF ~e.running THEN [st EXCEPT !.events = RemoveEvent(st.events, e)]
        ELSE IF passed >= e.cycles
        THEN IF out.raised
             THEN [st EXCEPT !.events[j].cycles_passed = passed,
                             !.events[j].running = FALSE,
                             !.invoked = Append(@, id),
                             !.raised = @ \cup {id}]
             ELSE [st EXCEPT !.events[j].cycles_passed = passed,
                             !.mood = out.mood,
                             !.xp_multiplier = out.xp_multiplier,
                             !.invoked = Append(@, id)]
        ELSE [st EXCEPT !.events[j].cycles_passed = passed]

\* one iteration of process_cycle's loop, for the event object `id` of the copy
ProcessEvent(st, id, oracle) ==
    LET j == IndexOfId(st.events, id)
        e == st.events[j]
        passed == e.cycles_passed + 1
        out == InvokeCallback(st, e, oracle)
    IN  IF ~e.running THEN [st EXCEPT !.events = RemoveEvent(st.events, e)]
        ELSE IF passed >= e.cycles
        THEN IF out.raised
             THEN [st EXCEPT !.events[j].cycles_passed = passed,
                             !.events[j].running = FALSE,
                             !.invoked = Append(@, id),
                             !.raised = @ \cup {id}]
             ELSE [st EXCEPT !.events[j].cycles_passed = 0,
                             !.mood = out.mood,
                             !.xp_multiplier = out.xp_multiplier,
                             !.invoked = Append(@, id)]
        ELSE [st EXCEPT !.events[j].cycles_passed = passed]

\* the loop over self.events[:]; an exception leaving an iteration ends the loop
RECURSIVE ProcessEvents(_, _, _, _)
ProcessEvents(st, copy, i, oracle) ==
    IF i > Len(copy) \/ st.exception # None THEN st
    ELSE ProcessEvents(ProcessEvent(st, copy[i].id, oracle), copy, i + 1, oracle)

\* process_cycle running the events on every second call only
process_cycle_every_other(st, oracle) ==
    LET start == [events |-> st.events, cycle_count |-> st.cycle_count + 1,
                  mood |-> st.mood, xp_multiplier |-> st.xp_multiplier,
                  invoked |-> <<>>, raised |-> {}, exception |-> None]
        copy == IF st.cycle_count % 2 = 1 THEN st.events ELSE <<>>
        end == ProcessEvents(start, copy, 1, oracle)
    IN  [events |-> end.events, cycle_count |-> end.cycle_count, mood |-> end.mood,
         xp_multiplier |-> end.xp_multiplier, invoked |-> end.invoked,
         raised |-> end.raised, exception |-> end.exception,
         removed |-> {copy[k].id : k \in 1..Len(copy)}
                     \ {end.events[k].id : k \in 1..Len(end.events)}]

\* process_cycle going through the events from the last to the first
process_cycle_reversed(st, oracle) ==
    LET start == [events |-> st.events, cycle_count |-> st.cycle_count + 1,
                  mood |-> st.mood, xp_multiplier |-> st.xp_multiplier,
                  invoked |-> <<>>, raised |-> {}, exception |-> None]
        copy == [k \in 1..Len(st.events) |-> st.events[Len(st.events) + 1 - k]]
        end == ProcessEvents(start, copy, 1, oracle)
    IN  [events |-> end.events, cycle_count |-> end.cycle_count, mood |-> end.mood,
         xp_multiplier |-> end.xp_multiplier, invoked |-> end.invoked,
         raised |-> end.raised, exception |-> end.exception,
         removed |-> {copy[k].id : k \in 1..Len(copy)}
                     \ {end.events[k].id : k \in 1..Len(end.events)}]

\* process_cycle on the scheduler and the engine state its callbacks touch:
\* st = [events, cycle_count, mood, xp_multiplier]; the result adds `invoked`
\* (the events whose callback ran, in order), `raised` (those that raised) and
\* `removed` (the events dropped from the list) and `exception` (the exception
\* that leaves the call, or None)
process_cycle(st, oracle) ==
    LET start == [events |-> st.events, cycle_count |-> st.cycle_count + 1,
                  mood |-> st.mood, xp_multiplier |-> st.xp_multiplier,
                  invoked |-> <<>>, raised |-> {}, exception |-> None]
        copy == st.events
        end == ProcessEvents(start, copy, 1, oracle)
    IN  [events |-> end.events, cycle_count |-> end.cycle_count, mood |-> end.mood,
         xp_multiplier |-> end.xp_multiplier, invoked |-> end.invoked,
         raised |-> end.raised, exception |-> end.exception,
         removed |-> {copy[k].id : k \in 1..Len(copy)}
                     \ {end.events[k].id : k \in 1..Len(end.events)}]

----------------------------------------------------------------------------
(* RuneScapeKitsuneAI.get_skill_xp_from_message *)

\* A message is a sequence of one-character strings.
UPPER == <<"A","B","C","D","E","F","G","H","I","J","K","L","M",
           "N","O","P","Q","R","S","T","U","V","W","X","Y","Z">>

LOWER == <<"a","b","c","d","e","f","g","h","i","j","k","l","m",
           "n","o","p","q","r","s","t","u","v","w","x","y","z">>

\* str.lower() on the characters the model's messages use
LowerChar(c) ==
    IF \E i \in 1..Len(UPPER) : UPPER[i] = c
    THEN LOWER[CHOOSE i \in 1..Len(UPPER) : UPPER[i] = c]
    ELSE c

Lower(text) == [i \in 1..Len(text) |-> LowerChar(text[i])]

\* `word in text` on strings: word occurs as a substring
Contains(word, text) ==
    \E i \in 0..(Len(text) - Len(word)) :
        \A j \in 1..Len(word) : text[i + j] = word[j]

\* any(word in text for word in words)
AnyWordIn(words, text) == \E i \in 1..Len(words) : Contains(words[i], text)

\* the keyword list of line 319
KW_ANALYSIS ==
    << <<"a","n","a","l","y","z","e">>,
       <<"d","a","t","a">>,
       <<"p","a","t","t","e","r","n">>,
       <<"s","t","u","d","y">>,
       <<"r","e","s","e","a","r","c","h">> >>

\* the keyword list of line 329
KW_HELPFULNESS ==
    << <<"h","e","l","p">>,
       <<"p","l","e","a","s","e">>,
       <<"t","h","a","n","k","s">>,
       <<"t","h","a","n","k"," ","y","o","u">> >>

\* the keyword list of line 333
KW_PROBLEM_CODE ==
    << <<"c","o","d","e">>,
       <<"d","e","b","u","g">>,
       <<"e","r","r","o","r">>,
       <<"f","i","x">>,
       <<"s","o","l","v","e">>,
       <<"p","r","o","b","l","e","m">> >>

\* the keyword list of line 335
KW_PROBLEM_LANG ==
    << <<"f","u","n","c","t","i","o","n">>,
       <<"p","y","t","h","o","n">>,
       <<"j","a","v","a","s","c","r","i","p","t">>,
       <<"h","t","m","l">>,
       <<"c","s","s">> >>

\* the keyword list of line 339
KW_CREATIVE ==
    << <<"c","r","e","a","t","e">>,
       <<"s","t","o","r","y">>,
       <<"p","o","e","m">>,
       <<"w","r","i","t","e">>,
       <<"c","r","e","a","t","i","v","e">>,
       <<"a","r","t">> >>

\* the keyword list of line 341
KW_CREATIVE_DESIGN ==
    << <<"d","e","s","i","g","n">>,
       <<"i","m","a","g","i","n","e">>,
       <<"i","n","v","e","n","t">>,
       <<"o","r","i","g","i","n","a","l">> >>

\* the keyword list of line 345
KW_LEARNING ==
    << <<"l","e","a","r","n">>,
       <<"t","e","a","c","h">>,
       <<"e","x","p","l","a","i","n">>,
       <<"u","n","d","e","r","s","t","a","n","d">>,
       <<"h","o","w">> >>

\* the keyword list of line 347
KW_LEARNING_WH ==
    << <<"w","h","y">>,
       <<"w","h","a","t">>,
       <<"w","h","e","n">>,
       <<"w","h","e","r","e">>,
       <<"t","u","t","o","r","i","a","l">> >>

\* the keyword list of line 353
KW_PATIENCE ==
    << <<"w","a","i","t">>,
       <<"s","l","o","w","l","y">>,
       <<"c","a","r","e","f","u","l">>,
       <<"d","e","t","a","i","l">> >>

\* the keyword list of line 357
KW_EMPATHY ==
    << <<"f","e","e","l">>,
       <<"e","m","o","t","i","o","n">>,
       <<"s","a","d">>,
       <<"h","a","p","p","y">>,
       <<"w","o","r","r","i","e","d">> >>

\* the keyword list of line 359
KW_EMPATHY_SUPPORT ==
    << <<"u","n","d","e","r","s","t","a","n","d">>,
       <<"s","u","p","p","o","r","t">>,
       <<"c","o","m","f","o","r","t">>,
       <<"l","i","s","t","e","n">> >>

\* the keyword list of line 364
KW_WISDOM ==
    << <<"w","i","s","e">>,
       <<"a","d","v","i","c","e">>,
       <<"g","u","i","d","a","n","c","e">>,
       <<"i","n","s","i","g","h","t">> >>

\* the list of the `'?' in message` test of line 317
QUESTION_MARK == << <<"?">> >>

\* The statements of get_skill_xp_from_message in source order, one rule each:
\*   test "raw":    any of `words` occurs in message
\*   test "lower":  any of `words` occurs in message.lower()
\*   test "length": len(message) > longer_than
\*   test "always": unconditional
\*   mode "set":  xp_gains[skill] = amount
\*   mode "add":  xp_gains[skill] = xp_gains.get(skill, 0) + amount
XP_RULES ==
    << [skill |-> "Analysis", mode |-> "set", amount |-> 10, test |-> "raw",
        words |-> QUESTION_MARK, longer_than |-> 0],
       [skill |-> "Analysis", mode |-> "add", amount |-> 15, test |-> "lower",
        words |-> KW_ANALYSIS, longer_than |-> 0],
       [skill |-> "Communication", mode |-> "set", amount |-> 15, test |-> "length",
        words |-> <<>>, longer_than |-> 100],
       [skill |-> "Communication", mode |-> "set", amount |-> 25, test |-> "length",
        words |-> <<>>, longer_than |-> 200],
       [skill |-> "Helpfulness", mode |-> "set", amount |-> 20, test |-> "lower",
        words |-> KW_HELPFULNESS, longer_than |-> 0],
       [skill |-> "Problem-Solving", mode |-> "set", amount |-> 25, test |-> "lower",
        words |-> KW_PROBLEM_CODE, longer_than |-> 0],
       [skill |-> "Problem-Solving", mode |-> "add", amount |-> 20, test |-> "lower",
        words |-> KW_PROBLEM_LANG, longer_than |-> 0],
       [skill |-> "Creativity", mode |-> "set", amount |-> 30, test |-> "lower",
        words |-> KW_CREATIVE, longer_than |-> 0],
       [skill |-> "Creativity", mode |-> "add", amount |-> 15, test |-> "lower",
        words |-> KW_CREATIVE_DESIGN, longer_than |-> 0],
       [skill |-> "Learning", mode |-> "set", amount |-> 18, test |-> "lower",
        words |-> KW_LEARNING, longer_than |-> 0],
       [skill |-> "Learning", mode |-> "add", amount |-> 12, test |-> "lower",
        words |-> KW_LEARNING_WH, longer_than |-> 0],
       [skill |-> "Patience", mode |-> "set", amount |-> 10, test |-> "length",
        words |-> <<>>, longer_than |-> 300],
       [skill |-> "Patience", mode |-> "add", amount |-> 8, test |-> "lower",
        words |-> KW_PATIENCE, longer_than |-> 0],
       [skill |-> "Empathy", mode |-> "set", amount |-> 22, test |-> "lower",
        words |-> KW_EMPATHY, longer_than |-> 0],
       [skill |-> "Empathy", mode |-> "add", amount |-> 15, test |-> "lower",
        words |-> KW_EMPATHY_SUPPORT, longer_than |-> 0],
       [skill |-> "Wisdom", mode |-> "set", amount |-> 5, test |-> "always",
        words |-> <<>>, longer_than |-> 0],
       [skill |-> "Wisdom", mode |-> "set", amount |-> 25, test |-> "lower",
        words |-> KW_WISDOM, longer_than |-> 0] >>

\* the conditions with the unconditional statement never taken
RuleMatchesNoBaseline(rule, message) ==
    CASE rule.test = "raw"    -> AnyWordIn(rule.words, message)
      [] rule.test = "lower"  -> AnyWordIn(rule.words, Lower(message))
      [] rule.test = "length" -> Len(message) > rule.longer_than
      [] rule.test = "always" -> FALSE

RuleMatches(rule, message) ==
    CASE rule.test = "raw"    -> AnyWordIn(rule.words, message)
      [] rule.test = "lower"  -> AnyWordIn(rule.words, Lower(message))
      [] rule.test = "length" -> Len(message) > rule.longer_than
      [] rule.test = "always" -> TRUE

\* xp_gains.get(skill, 0) after the first n statements have run
RECURSIVE GainAfter(_, _, _)
GainAfter(skill, n, message) ==
    IF n = 0 THEN 0
    ELSE IF XP_RULES[n].skill # skill \/ ~RuleMatches(XP_RULES[n], message)
    THEN GainAfter(skill, n - 1, message)
    ELSE IF XP_RULES[n].mode = "set" THEN XP_RULES[n].amount
    ELSE GainAfter(skill, n - 1, message) + XP_RULES[n].amount

\* the first matching statement decides alone, as in an if/elif chain
InsertsKeyFirstMatchOnly(n, message) ==
    /\ RuleMatches(XP_RULES[n], message)
    /\ \A j \in 1..(n - 1) :
           XP_RULES[j].test # "always" => ~RuleMatches(XP_RULES[j], message)

\* statement n is the one that inserts its key into xp_gains
InsertsKey(n, message) ==
    /\ RuleMatches(XP_RULES[n], message)
    /\ \A j \in 1..(n - 1) :
           XP_RULES[j].skill = XP_RULES[n].skill => ~RuleMatches(XP_RULES[j], message)

\* get_skill_xp_from_message: the returned dict as the sequence of its items
\* [key, value] in insertion order (the order in which .items() yields them)
get_skill_xp_from_message(message) ==
    LET Inserts(n) == InsertsKey(n, message)
        inserted == SelectSeq([n \in 1..Len(XP_RULES) |-> n], Inserts)
    IN  [k \in 1..Len(inserted) |->
            [key |-> XP_RULES[inserted[k]].skill,
             value |-> GainAfter(XP_RULES[inserted[k]].skill, Len(XP_RULES), message)]]

\* a dict lookup with a default on such a sequence of items
DictGet(d, k, default) ==
    IF \E i \in 1..Len(d) : d[i].key = k
    THEN d[CHOOSE i \in 1..Len(d) : d[i].key = k].value
    ELSE default

\* "ok"
MSG_PLAIN == <<"o","k">>

\* "Debug my story"
MSG_DEBUG_STORY == <<"D","e","b","u","g"," ","m","y"," ","s","t","o","r","y">>

\* the messages the exploration sends, and their XP gains (computed once)
MESSAGES == {MSG_PLAIN, MSG_DEBUG_STORY}

XpGainsOf == [m \in MESSAGES |-> get_skill_xp_from_message(m)]

----------------------------------------------------------------------------
(* RuneScapeKitsuneAI.process_interaction *)

\* the award loop keeping only one level-up (the singular `level_up` contract)
RECURSIVE AwardXpSingle(_, _, _, _, _, _)
AwardXpSingle(sk, gains, i, multiplier, level_ups, xp_drops) ==
    IF i > Len(gains)
    THEN [skills |-> sk, level_ups |-> level_ups, xp_drops |-> xp_drops]
    ELSE LET skill_name == gains[i].key
             xp_amount == gains[i].value
             final_xp == xp_amount * multiplier
             level_up == add_xp_result(sk, skill_name, final_xp, 1)
         IN  IF xp_amount > 0
             THEN AwardXpSingle(add_xp_skills(sk, skill_name, final_xp, 1), gains, i + 1,
                          multiplier,
                          IF level_up # NoEvent THEN <<level_up>> ELSE level_ups,
                          Append(xp_drops, [amount |-> final_xp, skill_name |-> skill_name]))
             ELSE AwardXpSingle(sk, gains, i + 1, multiplier, level_ups, xp_drops)

award_xp_single(sk, gains, multiplier) == AwardXpSingle(sk, gains, 1, multiplier, <<>>, <<>>)

\* the loop over skill_xp_gains.items()
RECURSIVE AwardXp(_, _, _, _, _, _)
AwardXp(sk, gains, i, multiplier, level_ups, xp_drops) ==
    IF i > Len(gains)
    THEN [skills |-> sk, level_ups |-> level_ups, xp_drops |-> xp_drops]
    ELSE LET skill_name == gains[i].key
             xp_amount == gains[i].value
             final_xp == xp_amount * multiplier
             level_up == add_xp_result(sk, skill_name, final_xp, 1)
         IN  IF xp_amount > 0
             THEN AwardXp(add_xp_skills(sk, skill_name, final_xp, 1), gains, i + 1,
                          multiplier,
                          IF level_up # NoEvent THEN Append(level_ups, level_up)
                                             ELSE level_ups,
                          Append(xp_drops, [amount |-> final_xp, skill_name |-> skill_name]))
             ELSE AwardXp(sk, gains, i + 1, multiplier, level_ups, xp_drops)

award_xp(sk, gains, multiplier) == AwardXp(sk, gains, 1, multiplier, <<>>, <<>>)

\* process_interaction checking the achievements before the counter and the XP
process_interaction_check_first(e, action, content, oracle) ==
    LET interactions == e.total_interactions + 1
        skill_xp_gains == XpGainsOf[content]
        checked == check_achievements(e.completed, e.skills, e.total_interactions)
        awarded == award_xp(e.skills, skill_xp_gains, e.xp_multiplier)
        mood == update_mood(e.mood, action, oracle.mood_pick_direct)
        ticked == process_cycle([events |-> e.events, cycle_count |-> e.cycle_count,
                                 mood |-> mood, xp_multiplier |-> e.xp_multiplier],
                                oracle)
    IN  [engine |-> [skills |-> awarded.skills,
                     total_interactions |-> interactions,
                     completed |-> checked.completed,
                     mood |-> ticked.mood,
                     events |-> ticked.events,
                     cycle_count |-> ticked.cycle_count,
                     xp_multiplier |-> ticked.xp_multiplier],
         tick |-> ticked,
         result |-> [xp_drops |-> awarded.xp_drops,
                     level_ups |-> awarded.level_ups,
                     new_achievements |-> checked.newly_completed,
                     random_event |-> oracle.random_event,
                     current_tails |-> get_unlocked_tails(awarded.skills),
                     total_level |-> get_total_level(awarded.skills),
                     mood |-> ticked.mood.current_mood,
                     available_emotes |->
                         get_available_emotes(get_total_level(awarded.skills))]]

\* process_interaction on the engine e = [skills, total_interactions, completed,
\* mood, events, cycle_count, xp_multiplier].  oracle.mood_pick_direct and
\* oracle.random_event are the random draws of the direct mood update and of
\* check_random_event; the rest of the oracle is the tick's.
process_interaction(e, action, content, oracle) ==
    LET interactions == e.total_interactions + 1
        skill_xp_gains == XpGainsOf[content]
        awarded == award_xp(e.skills, skill_xp_gains, e.xp_multiplier)
        mood == update_mood(e.mood, action, oracle.mood_pick_direct)
        checked == check_achievements(e.completed, awarded.skills, interactions)
        ticked == process_cycle([events |-> e.events, cycle_count |-> e.cycle_count,
                                 mood |-> mood, xp_multiplier |-> e.xp_multiplier],
                                oracle)
    IN  [engine |-> [skills |-> awarded.skills,
                     total_interactions |-> interactions,
                     completed |-> checked.completed,
                     mood |-> ticked.mood,
                     events |-> ticked.events,
                     cycle_count |-> ticked.cycle_count,
                     xp_multiplier |-> ticked.xp_multiplier],
         tick |-> ticked,
         result |-> [xp_drops |-> awarded.xp_drops,
                     level_ups |-> awarded.level_ups,
                     new_achievements |-> checked.newly_completed,
                     random_event |-> oracle.random_event,
                     current_tails |-> get_unlocked_tails(awarded.skills),
                     total_level |-> get_total_level(awarded.skills),
                     mood |-> ticked.mood.current_mood,
                     available_emotes |->
                         get_available_emotes(get_total_level(awarded.skills))]]

----------------------------------------------------------------------------
(* The state machine *)

\* bounds of the exploration
MaxOps == 3
MaxTicks == 6
MaxEvents == 2
MaxCycles == 3
WarmUp == 100
MaxProbeTotal == 900

\* the three add_event calls of setup_events, on a fresh CycleEventHandler
setup_events ==
    add_event(add_event(add_event(<<>>, 1, "engine", "update_mood", 10),
                        2, "engine", "check_random_events", 100),
              3, "engine", "reset_xp_multiplier", 600)

\* The history of the events registered so far, by event id: function[id] and
\* cycles[id] as registered, reg[id] the cycle count at registration, calls[id]
\* how often the callback has been invoked; raised: the events whose callback has
\* raised; removed: the events dropped from the list
InitHist(evs) ==
    [function |-> [i \in 1..Len(evs) |-> evs[i].function],
     cycles |-> [i \in 1..Len(evs) |-> evs[i].cycles],
     reg |-> [i \in 1..Len(evs) |-> 0],
     calls |-> [i \in 1..Len(evs) |-> 0],
     raised |-> {}, removed |-> {}]

\* the history after a tick
Occurrences(seq, x) == Cardinality({k \in 1..Len(seq) : seq[k] = x})

HistAfterTick(h, tick) ==
    [h EXCEPT !.calls = [i \in DOMAIN @ |-> @[i] + Occurrences(tick.invoked, i)],
              !.raised = @ \cup tick.raised,
              !.removed = @ \cup tick.removed]

\* RuneScapeKitsuneAI(): the engine as constructed
Init ==
    /\ skills = InitSkills
    /\ total_interactions = 0
    /\ completed = {}
    /\ current_mood = InitMood.current_mood
    /\ mood_duration = InitMood.mood_duration
    /\ interaction_count = InitMood.interaction_count
    /\ events = setup_events
    /\ cycle_count = 0
    /\ xp_multiplier = 1
    /\ hist = InitHist(setup_events)
    /\ ret = [op |-> "init"]
    /\ nops = 0
    /\ save_file = NoFile
    /\ session_start = 1

Mood == [current_mood |-> current_mood, mood_duration |-> mood_duration,
         interaction_count |-> interaction_count]

Engine == [skills |-> skills, total_interactions |-> total_interactions,
           completed |-> completed, mood |-> Mood, events |-> events,
           cycle_count |-> cycle_count, xp_multiplier |-> xp_multiplier]

\* progression.add_xp(skill, amount, multiplier)
AddXp(skill, amount, multiplier) ==
    /\ skills' = add_xp_skills(skills, skill, amount, multiplier)
    /\ ret' = [op |-> "add_xp", skill |-> skill, amount |-> amount,
               multiplier |-> multiplier,
               result |-> add_xp_result(skills, skill, amount, multiplier)]
    /\ nops' = nops + 1
    /\ UNCHANGED <<total_interactions, completed, current_mood, mood_duration,
                   interaction_count, events, cycle_count, xp_multiplier, hist, save_file,
                   session_start>>

\* achievements.check_achievements(progression)
CheckAchievements ==
    LET checked == check_achievements(completed, skills, total_interactions) IN
    /\ completed' = checked.completed
    /\ ret' = [op |-> "check_achievements", result |-> checked.newly_completed]
    /\ UNCHANGED <<skills, total_interactions, current_mood, mood_duration,
                   interaction_count, events, cycle_count, xp_multiplier, hist, nops, save_file,
                   session_start>>

\* the random draws a process_interaction call can make from the current state
\* (a draw that is not made is fixed, so that it adds no behaviours)
DirectMoodPicks(action) ==
    IF action \notin {"coding", "question", "creative"} /\ mood_duration + 1 > MOOD_LIMIT
    THEN MoodSet ELSE {current_mood}

Due(function) ==
    \E k \in 1..Len(events) :
        /\ events[k].function = function
        /\ events[k].running
        /\ events[k].cycles_passed + 1 >= events[k].cycles

TickMoodPicks == IF Due("update_mood") THEN MoodSet ELSE {current_mood}

TickRandomEvents == IF Due("check_random_events") THEN RANDOM_EVENT_OUTCOMES ELSE {None}

\* await engine.process_interaction(action, content)
ProcessInteraction(action, content, returned_events) ==
    \E pick1 \in DirectMoodPicks(action), pick2 \in TickMoodPicks,
       rand1 \in returned_events, rand2 \in TickRandomEvents :
        LET oracle == [mood_pick_direct |-> pick1, random_event |-> rand1,
                       mood_pick |-> pick2, rand_event |-> rand2, raisers |-> {}]
        IN  \E out \in {process_interaction(Engine, action, content, oracle)} :
            /\ skills' = out.engine.skills
            /\ total_interactions' = out.engine.total_interactions
            /\ completed' = out.engine.completed
            /\ current_mood' = out.engine.mood.current_mood
            /\ mood_duration' = out.engine.mood.mood_duration
            /\ interaction_count' = out.engine.mood.interaction_count
            /\ events' = out.engine.events
            /\ cycle_count' = out.engine.cycle_count
            /\ xp_multiplier' = out.engine.xp_multiplier
            /\ hist' = HistAfterTick(hist, out.tick)
            /\ ret' = [op |-> "process_interaction", action |-> action,
                       content |-> content, result |-> out.result,
                       invoked |-> out.tick.invoked]
            /\ nops' = nops + 1
            /\ UNCHANGED <<save_file, session_start>>

\* the arguments tried for add_xp: two known and one unknown skill name; amounts that
\* lose XP, reach level 2, reach level 9 and reach level 99
AddXpSkills == {"Wisdom", "Creativity", "Cooking"}
AddXpAmounts == {-13034431, 83, 1000, 13034431}
AddXpMultipliers == {1, 2}

Next ==
    \/ \E skill \in AddXpSkills, amount \in AddXpAmounts, multiplier \in AddXpMultipliers :
           nops < MaxOps /\ AddXp(skill, amount, multiplier)
    \/ CheckAchievements
    \/ \E content \in MESSAGES :
           nops < MaxOps /\ ProcessInteraction("general", content, {None})

Spec == Init /\ [][Next]_vars

----------------------------------------------------------------------------
(* The level curve and the tail thresholds as pure functions *)

CallXpForLevel(level) ==
    /\ ret' = [op |-> "get_xp_for_level", level |-> level,
               result |-> get_xp_for_level(level)]
    /\ UNCHANGED <<skills, total_interactions, completed, current_mood, mood_duration,
                   interaction_count, events, cycle_count, xp_multiplier, hist, nops, save_file,
                   session_start>>

\* get_level_for_xp on the XP a get_xp_for_level call returned, or next to it
CallLevelForXp(delta) ==
    /\ ret.op = "get_xp_for_level"
    /\ ret' = [op |-> "get_level_for_xp", xp |-> ret.result + delta,
               result |-> get_level_for_xp(ret.result + delta),
               of_level |-> ret.level, delta |-> delta]
    /\ UNCHANGED <<skills, total_interactions, completed, current_mood, mood_duration,
                   interaction_count, events, cycle_count, xp_multiplier, hist, nops, save_file,
                   session_start>>

CallUnlockedTails(total_level) ==
    /\ ret' = [op |-> "get_unlocked_tails", total_level |-> total_level,
               result |-> unlocked_tails_for(total_level)]
    /\ UNCHANGED <<skills, total_interactions, completed, current_mood, mood_duration,
                   interaction_count, events, cycle_count, xp_multiplier, hist, nops, save_file,
                   session_start>>

NextCurve ==
    \/ \E level \in 1..MAX_LEVEL : CallXpForLevel(level)
    \/ \E delta \in {-1, 0, 1} : CallLevelForXp(delta)
    \/ \E total_level \in 0..MaxProbeTotal : CallUnlockedTails(total_level)

SpecCurve == Init /\ [][NextCurve]_vars

----------------------------------------------------------------------------
(* A CycleEventHandler of its own, with test callbacks *)

InitSched ==
    /\ skills = InitSkills
    /\ total_interactions = 0
    /\ completed = {}
    /\ current_mood = InitMood.current_mood
    /\ mood_duration = InitMood.mood_duration
    /\ interaction_count = InitMood.interaction_count
    /\ events = <<>>
    /\ cycle_count = 0
    /\ xp_multiplier = 1
    /\ hist = InitHist(<<>>)
    /\ ret = [op |-> "init"]
    /\ nops = 0
    /\ save_file = NoFile
    /\ session_start = 1

\* handler.add_event(owner, event_func, cycles)
AddEvent(event_func, cycles) ==
    LET id == Len(hist.calls) + 1 IN
    /\ id <= MaxEvents
    /\ events' = add_event(events, id, "test", event_func, cycles)
    /\ hist' = [hist EXCEPT !.function = Append(@, event_func),
                             !.cycles = Append(@, cycles),
                             !.reg = Append(@, cycle_count),
                             !.calls = Append(@, 0)]
    /\ ret' = [op |-> "add_event", id |-> id]
    /\ UNCHANGED <<skills, total_interactions, completed, current_mood, mood_duration,
                   interaction_count, cycle_count, xp_multiplier, nops, save_file,
                   session_start>>

\* the events whose callback can raise on the coming tick
CanRaise ==
    {events[k].id : k \in {i \in 1..Len(events) :
        /\ events[i].function = "cb_faulty"
        /\ events[i].running
        /\ events[i].cycles_passed + 1 >= events[i].cycles}}

\* handler.process_cycle()
ProcessCycle ==
    /\ cycle_count < MaxTicks
    /\ \E raisers \in SUBSET CanRaise :
        LET oracle == [mood_pick |-> current_mood, rand_event |-> None,
                       raisers |-> raisers]
        IN  \E out \in {process_cycle([events |-> events, cycle_count |-> cycle_count,
                                       mood |-> Mood, xp_multiplier |-> xp_multiplier],
                                      oracle)} :
            /\ events' = out.events
            /\ cycle_count' = out.cycle_count
            /\ current_mood' = out.mood.current_mood
            /\ mood_duration' = out.mood.mood_duration
            /\ interaction_count' = out.mood.interaction_count
            /\ xp_multiplier' = out.xp_multiplier
            /\ hist' = HistAfterTick(hist, out)
            /\ ret' = [op |-> "process_cycle", invoked |-> out.invoked,
                       raised |-> out.raised, removed |-> out.removed,
                       exception |-> out.exception]
            /\ UNCHANGED <<skills, total_interactions, completed, nops, save_file, session_start>>

NextSched ==
    \/ \E event_func \in TEST_CALLBACKS, cycles \in 1..MaxCycles :
           AddEvent(event_func, cycles)
    \/ ProcessCycle

SpecSched == InitSched /\ [][NextSched]_vars

----------------------------------------------------------------------------
(* The engine over a long run of interactions: WarmUp plain messages, then    *)
(* MaxOps messages of either kind                                             *)

NextLong ==
    \/ /\ total_interactions < WarmUp
       /\ ProcessInteraction("general", MSG_PLAIN, {None})
    \/ /\ total_interactions >= WarmUp
       /\ total_interactions < WarmUp + MaxOps
       /\ \E content \in MESSAGES :
              ProcessInteraction("general", content, {None, "XP Boost"})

SpecLong == Init /\ [][NextLong]_vars

----------------------------------------------------------------------------
(* The engine with every skill trained to the top: add_xp on any skill not   *)
(* yet at the top level, and up to MaxOps plain interactions                 *)

\* an amount past the XP of the last level of the table
TOP_XP == 26068862

NextGrind ==
    \/ \E skill \in SkillSet :
           /\ skills[skill].level < MAX_LEVEL
           /\ AddXp(skill, TOP_XP, 1)
    \/ /\ total_interactions < MaxOps
       /\ ProcessInteraction("general", MSG_PLAIN, {None})

SpecGrind == Init /\ [][NextGrind]_vars

----------------------------------------------------------------------------
(* Properties *)

EventIds(evs) == {evs[k].id : k \in 1..Len(evs)}

EventOf(evs, id) == evs[IndexOfId(evs, id)]

IsList(x) == DOMAIN x = 1..Len(x)

\* C1: in every state reached by add_xp, check_achievements and
\* process_interaction calls on a fresh engine, each of the 9 skills' stored level
\* is get_level_for_xp of its stored xp.
C1_LevelNeverStale ==
    \A s \in SkillSet :
        /\ s \in DOMAIN skills
        /\ skills[s].level = get_level_for_xp(skills[s].xp)

\* an add_xp call has just raised a level, after an interaction was processed
C1_Witness ==
    /\ ret.op = "add_xp"
    /\ ret.result # NoEvent
    /\ total_interactions >= 1
    /\ skills["Wisdom"].level > 1

\* C2: for every level L in 1..99, get_level_for_xp(get_xp_for_level(L)) = L, on
\* the table get_xp_for_level returns (0 for level 1, 83 for level 2, 13034431 for
\* level 99).
C2_RoundTrip ==
    /\ (ret.op = "get_level_for_xp" /\ ret.delta = 0) => ret.result = ret.of_level
    /\ (ret.op = "get_xp_for_level" /\ ret.level = 1) => ret.result = 0
    /\ (ret.op = "get_xp_for_level" /\ ret.level = 2) => ret.result = 83
    /\ (ret.op = "get_xp_for_level" /\ ret.level = 99) => ret.result = 13034431

\* the round trip has been made for the top level
C2_Witness ==
    /\ ret.op = "get_level_for_xp"
    /\ ret.delta = 0
    /\ ret.of_level = MAX_LEVEL
    /\ ret.result = MAX_LEVEL

\* C3: achievements are one-shot.  On every step the awarded set only grows; the
\* IDs a check returns (called directly or inside process_interaction) were not in
\* the awarded set before the call, are in it after the call, and are listed once:
\* so an ID already awarded is never returned again.
C3_Returned(r) ==
    IF r.op = "check_achievements" THEN r.result
    ELSE IF r.op = "process_interaction" THEN r.result.new_achievements
    ELSE <<>>

C3_AchievementsOneShot ==
    [][ /\ completed \subseteq completed'
        /\ \A i \in 1..Len(C3_Returned(ret')) :
              /\ C3_Returned(ret')[i] \notin completed
              /\ C3_Returned(ret')[i] \in completed'
              /\ \A j \in 1..Len(C3_Returned(ret')) :
                     C3_Returned(ret')[j] = C3_Returned(ret')[i] => j = i
      ]_vars

\* a check has just returned nothing although an awarded achievement's condition
\* holds, and another awarded achievement's condition has stopped holding
C3_Witness ==
    /\ ret.op = "check_achievements"
    /\ Len(ret.result) = 0
    /\ "first_interaction" \in completed
    /\ AchievementCondition("first_interaction", skills, total_interactions)
    /\ "level_99_any" \in completed
    /\ ~AchievementCondition("level_99_any", skills, total_interactions)

\* C4: add_xp with a name that is not one of the 9 skills returns None and
\* changes nothing: the skill map keeps its keys and values, and the interaction
\* counter and the rest of the engine are untouched.
C4_UnknownSkillNoOp ==
    [][ (ret'.op = "add_xp" /\ ret'.skill \notin SkillSet) =>
            /\ ret'.result = NoEvent
            /\ DOMAIN skills' = SkillSet
            /\ skills' = skills
            /\ UNCHANGED <<total_interactions, completed, current_mood, mood_duration,
                           interaction_count, events, cycle_count, xp_multiplier>>
      ]_vars

\* add_xp was just called with an unknown name on a tracker that holds XP
C4_Witness ==
    /\ ret.op = "add_xp"
    /\ ret.skill \notin SkillSet
    /\ ret.result = NoEvent
    /\ skills["Wisdom"].xp > 0

\* C5: add_xp on a known skill adds amount * multiplier to that skill's xp and
\* leaves the other skills alone; it returns the event [skill, old_level,
\* new_level, xp_gained = amount * multiplier] exactly when the recomputed level
\* is above the level before the call, and None otherwise; 1000 XP to Wisdom on a
\* fresh tracker gives old_level 1 and new_level get_level_for_xp(1000) = 9.
C5_AddXpEvent ==
    [][ (ret'.op = "add_xp" /\ ret'.skill \in SkillSet) =>
            LET s == ret'.skill
                gained == ret'.amount * ret'.multiplier
            IN  /\ skills'[s].xp = skills[s].xp + gained
                /\ \A o \in SkillSet \ {s} : skills'[o] = skills[o]
                /\ IF get_level_for_xp(skills'[s].xp) > skills[s].level
                   THEN ret'.result = [skill |-> s, old_level |-> skills[s].level,
                                       new_level |-> get_level_for_xp(skills'[s].xp),
                                       xp_gained |-> gained]
                   ELSE ret'.result = NoEvent
                /\ (skills = InitSkills /\ s = "Wisdom" /\ ret'.amount = 1000
                     /\ ret'.multiplier = 1) =>
                       /\ ret'.result # NoEvent
                       /\ ret'.result.old_level = 1
                       /\ ret'.result.new_level = 9
      ]_vars

\* an add_xp call has just returned an event that skips levels
C5_Witness ==
    /\ ret.op = "add_xp"
    /\ ret.result # NoEvent
    /\ ret.result.new_level > ret.result.old_level + 1
    /\ ret.result.xp_gained = ret.amount * ret.multiplier

\* C6: an event registered with add_event for N >= 1 ticks whose callback never
\* raises stays in the list and running; A ticks after its registration its
\* callback has been invoked A div N times and its elapsed counter is A mod N
\* (0 right after a firing, within 0..N-1 always); a tick invokes it exactly once
\* when A is a positive multiple of N and not at all otherwise.
C6_SteadyEventFiresEveryN ==
    \A id \in DOMAIN hist.function :
        (hist.function[id] = "cb_steady" /\ hist.cycles[id] >= 1) =>
            LET N == hist.cycles[id]
                A == cycle_count - hist.reg[id]
            IN  /\ id \in EventIds(events)
                /\ EventOf(events, id).running
                /\ EventOf(events, id).cycles_passed = A % N
                /\ EventOf(events, id).cycles_passed \in 0..(N - 1)
                /\ hist.calls[id] = A \div N
                /\ ret.op = "process_cycle" =>
                       Occurrences(ret.invoked, id) = IF A > 0 /\ A % N = 0 THEN 1 ELSE 0

\* an event requiring 3 ticks has just fired for the first time, on its 3rd tick
C6_Witness ==
    \E id \in DOMAIN hist.function :
        /\ hist.function[id] = "cb_steady"
        /\ hist.cycles[id] = 3
        /\ cycle_count - hist.reg[id] = 3
        /\ hist.calls[id] = 1
        /\ ret.op = "process_cycle"
        /\ Occurrences(ret.invoked, id) = 1
        /\ EventOf(events, id).cycles_passed = 0

\* C7: on a tick on which a callback raises, no exception leaves process_cycle
\* and the event is still in the list, marked not running; an event that is not
\* running at the start of a tick is removed by that tick without being invoked;
\* and no tick ever invokes the callback of an event that has raised before.
C7_RaisingEventRemovedNextTick ==
    [][ cycle_count' = cycle_count + 1 =>
            /\ ret'.exception = None
            /\ \A id \in ret'.raised :
                   /\ id \in EventIds(events')
                   /\ ~EventOf(events', id).running
            /\ \A k \in 1..Len(events) :
                   ~events[k].running =>
                       /\ events[k].id \in hist.raised
                       /\ events[k].id \notin EventIds(events')
                       /\ Occurrences(ret'.invoked, events[k].id) = 0
            /\ \A id \in hist.raised : Occurrences(ret'.invoked, id) = 0
      ]_vars

\* C8: the unlocked-tail count as a function of the total level is within 1..9
\* and non-decreasing, and is 1 at total level 8, 2 at 9 and 9 at 891.
C8_TailsMonotone ==
    ret.op = "get_unlocked_tails" =>
        /\ ret.result \in 1..9
        /\ \A lower \in 0..ret.total_level : unlocked_tails_for(lower) <= ret.result
        /\ ret.total_level = 8 => ret.result = 1
        /\ ret.total_level = 9 => ret.result = 2
        /\ ret.total_level = 891 => ret.result = 9

\* the count has been taken at total level 891
C8_Witness ==
    /\ ret.op = "get_unlocked_tails"
    /\ ret.total_level = 891
    /\ ret.result = 9

\* C9: in every state reached from a fresh engine by add_xp and
\* process_interaction calls, every skill's level is within 1..99 and the total
\* level within 9..891.
C9_LevelsInRange ==
    /\ \A s \in SkillSet : skills[s].level \in 1..99
    /\ get_total_level(skills) \in 9..891

\* every skill is at the top level, after an interaction was processed
C9_Witness ==
    /\ get_total_level(skills) = 891
    /\ total_interactions >= 1
    /\ \E s \in SkillSet : skills[s].xp > get_xp_for_level(MAX_LEVEL + 1)

----------------------------------------------------------------------------
(* get_skill_xp_from_message as a pure function, on messages put together    *)
(* from a few words and a padding that takes them past the length rules      *)

\* how many words a message is made of at most
MaxWords == 2

\* the words: "Debug ", "story ", "why? ", "please ", "understand ", "wise "
WORDS ==
    { <<"D","e","b","u","g"," ">>,
      <<"s","t","o","r","y"," ">>,
      <<"w","h","y","?"," ">>,
      <<"p","l","e","a","s","e"," ">>,
      <<"u","n","d","e","r","s","t","a","n","d"," ">>,
      <<"w","i","s","e"," ">> }

\* the lengths of padding appended: none, and past each of the length rules
PAD_LENGTHS == {0, 101, 201, 301}

Pad(n) == [i \in 1..n |-> "x"]

RECURSIVE MessagesOfWords(_)
MessagesOfWords(n) ==
    IF n = 0 THEN {<<>>}
    ELSE MessagesOfWords(n - 1)
         \cup {m \o w : m \in MessagesOfWords(n - 1), w \in WORDS}

\* the rules of get_skill_xp_from_message whose condition holds on the message
MatchingRules(message) == {n \in 1..Len(XP_RULES) : RuleMatches(XP_RULES[n], message)}

\* a fresh engine and the message about to be passed to it
InitClassify ==
    /\ skills = InitSkills
    /\ total_interactions = 0
    /\ completed = {}
    /\ current_mood = InitMood.current_mood
    /\ mood_duration = InitMood.mood_duration
    /\ interaction_count = InitMood.interaction_count
    /\ events = setup_events
    /\ cycle_count = 0
    /\ xp_multiplier = 1
    /\ hist = InitHist(setup_events)
    /\ ret \in {[op |-> "message", message |-> m \o Pad(n)] :
                    m \in MessagesOfWords(MaxWords), n \in PAD_LENGTHS}
    /\ nops = 0
    /\ save_file = NoFile
    /\ session_start = 1

\* engine.get_skill_xp_from_message(message)
CallGetSkillXp ==
    /\ ret.op = "message"
    /\ \E gains \in {get_skill_xp_from_message(ret.message)},
          matching \in {MatchingRules(ret.message)} :
           ret' = [op |-> "get_skill_xp_from_message", message |-> ret.message,
                   matching |-> matching, result |-> gains]
    /\ UNCHANGED <<skills, total_interactions, completed, current_mood, mood_duration,
                   interaction_count, events, cycle_count, xp_multiplier, hist, nops, save_file,
                   session_start>>

NextClassify == CallGetSkillXp

SpecClassify == InitClassify /\ [][NextClassify]_vars

Keys(d) == {d[i].key : i \in 1..Len(d)}

\* C11: the keys of the dict get_skill_xp_from_message returns are exactly Wisdom
\* and every skill that has a statement whose condition holds on the message, each
\* key once; so Wisdom is always a key, and a message with "debug" and "story" in
\* it has both Problem-Solving and Creativity as keys.
C11_SkillsIndependent ==
    ret.op = "get_skill_xp_from_message" =>
        /\ Keys(ret.result) = {"Wisdom"} \cup {XP_RULES[n].skill : n \in ret.matching}
        /\ Cardinality(Keys(ret.result)) = Len(ret.result)
        /\ "Wisdom" \in Keys(ret.result)
        /\ (Contains(<<"d","e","b","u","g">>, Lower(ret.message))
              /\ Contains(<<"s","t","o","r","y">>, Lower(ret.message)))
           => {"Problem-Solving", "Creativity"} \subseteq Keys(ret.result)

\* a call on a message with "debug" and "story" in it has returned both skills, and
\* more than two keys
C11_Witness ==
    /\ ret.op = "get_skill_xp_from_message"
    /\ Contains(<<"d","e","b","u","g">>, Lower(ret.message))
    /\ Contains(<<"s","t","o","r","y">>, Lower(ret.message))
    /\ Keys(ret.result) = {"Problem-Solving", "Creativity", "Wisdom"}

----------------------------------------------------------------------------
(* KitsuneSaveSystem.load_progress, as KitsuneTamagotchi.__init__ calls it on *)
(* the engine it has just constructed                                        *)

\* A snapshot is the dict pickle.load returns; each key is absent or holds a value.
\* The value of "achievements" is iterable (a list of items) or not.
Absent == [present |-> FALSE]

Field(v) == [present |-> TRUE, value |-> v]

EmptyList == [iterable |-> TRUE, items |-> <<>>]

\* save_data.get(key, default)
SnapshotGet(save_data, key, default) ==
    IF save_data[key].present THEN save_data[key].value ELSE default

\* set(items)
SetOf(items) == {items[i] : i \in 1..Len(items)}

\* the version tags tried: the one save_progress writes, an older one, and none
VERSIONS == {Field("3.0"), Field("1.0"), Absent}

\* skills as a run on the current program leaves them, and as an older program
\* with a single skill might have left them (a level that is not the level of the xp)
SAVED_SKILLS == add_xp_skills(InitSkills, "Wisdom", 1000, 1)

OLD_SKILLS == [s \in {"Wisdom"} |-> [xp |-> 500, level |-> 3]]

\* the dicts a save file can hold
SNAPSHOTS ==
    [version : VERSIONS,
     skills : {Absent, Field(SAVED_SKILLS), Field(OLD_SKILLS)},
     total_interactions : {Absent, Field(7)},
     achievements : {Absent,
                     Field([iterable |-> TRUE,
                            items |-> <<"first_interaction", "old_badge",
                                        "first_interaction">>]),
                     Field([iterable |-> FALSE])},
     current_mood : {Absent, Field("wise"), Field("grumpy")}]

\* what load_progress can find: no file, a file pickle.load raises on, a pickled
\* object that is not a dict, a pickled dict
SAVE_FILES ==
    {NoFile, [kind |-> "corrupt"], [kind |-> "pickle", is_dict |-> FALSE]}
    \cup {[kind |-> "pickle", is_dict |-> TRUE, data |-> d] : d \in SNAPSHOTS}

\* load_progress refusing a snapshot whose version is not the one it writes
load_progress_versioned(e, file) ==
    IF file.kind # "pickle" \/ ~file.is_dict
       \/ file.data.version # Field("3.0")
       \/ ~SnapshotGet(file.data, "achievements", EmptyList).iterable
    THEN [engine |-> e, result |-> FALSE, caught |-> None]
    ELSE [engine |-> [e EXCEPT
                 !.skills = SnapshotGet(file.data, "skills", e.skills),
                 !.total_interactions = SnapshotGet(file.data, "total_interactions", 0),
                 !.completed = SetOf(SnapshotGet(file.data, "achievements", EmptyList).items),
                 !.mood.current_mood = SnapshotGet(file.data, "current_mood", "curious")],
          result |-> TRUE, caught |-> None]

\* load_progress(kitsune_ai) on the engine e with the save file `file`: the engine
\* after the call, the value returned, and the exception the except clause caught
load_progress(e, file) ==
    IF file.kind = "missing"
    THEN [engine |-> e, result |-> FALSE, caught |-> None]
    ELSE IF file.kind = "corrupt"
    THEN [engine |-> e, result |-> FALSE, caught |-> "UnpicklingError"]
    ELSE IF ~file.is_dict
    THEN [engine |-> e, result |-> FALSE, caught |-> "AttributeError"]
    ELSE LET save_data == file.data
             e1 == [e EXCEPT !.skills = SnapshotGet(save_data, "skills", e.skills)]
             e2 == [e1 EXCEPT !.total_interactions =
                                  SnapshotGet(save_data, "total_interactions", 0)]
             achievements == SnapshotGet(save_data, "achievements", EmptyList)
         IN  IF ~achievements.iterable
             THEN [engine |-> e2, result |-> FALSE, caught |-> "TypeError"]
             ELSE [engine |-> [e2 EXCEPT
                          !.completed = SetOf(achievements.items),
                          !.mood.current_mood =
                              SnapshotGet(save_data, "current_mood", "curious")],
                   result |-> TRUE, caught |-> None]

\* KitsuneTamagotchi.__init__ after line 242: a fresh engine and whatever save file
\* is there
InitLoad ==
    /\ skills = InitSkills
    /\ total_interactions = 0
    /\ completed = {}
    /\ current_mood = InitMood.current_mood
    /\ mood_duration = InitMood.mood_duration
    /\ interaction_count = InitMood.interaction_count
    /\ events = setup_events
    /\ cycle_count = 0
    /\ xp_multiplier = 1
    /\ hist = InitHist(setup_events)
    /\ ret = [op |-> "init"]
    /\ nops = 0
    /\ save_file \in SAVE_FILES
    /\ session_start = 1

\* self.save_system.load_progress(self.kitsune_ai)
LoadProgress ==
    /\ ret.op = "init"
    /\ \E out \in {load_progress(Engine, save_file)} :
        /\ skills' = out.engine.skills
        /\ total_interactions' = out.engine.total_interactions
        /\ completed' = out.engine.completed
        /\ current_mood' = out.engine.mood.current_mood
        /\ mood_duration' = out.engine.mood.mood_duration
        /\ interaction_count' = out.engine.mood.interaction_count
        /\ events' = out.engine.events
        /\ cycle_count' = out.engine.cycle_count
        /\ xp_multiplier' = out.engine.xp_multiplier
        /\ ret' = [op |-> "load_progress", result |-> out.result,
                   caught |-> out.caught, before |-> Engine]
    /\ nops' = nops + 1
    /\ UNCHANGED <<hist, save_file, session_start>>

NextLoad == LoadProgress

SpecLoad == InitLoad /\ [][NextLoad]_vars

\* C12: whenever load_progress returns False, the engine's skills, interaction
\* counter, awarded set and mood are those of a freshly constructed engine.
C12_FailedLoadLeavesFresh ==
    (ret.op = "load_progress" /\ ~ret.result) =>
        /\ skills = InitSkills
        /\ total_interactions = 0
        /\ completed = {}
        /\ current_mood = InitMood.current_mood

IsSnapshot(file) == file.kind = "pickle" /\ file.is_dict

\* the live state a snapshot installed whole leaves: present fields as they are
\* (achievements as a set), absent ones at their defaults
InstalledWhole(d) ==
    /\ skills = (IF d.skills.present THEN d.skills.value ELSE ret.before.skills)
    /\ total_interactions
         = (IF d.total_interactions.present THEN d.total_interactions.value ELSE 0)
    /\ d.achievements.present =>
           /\ d.achievements.value.iterable
           /\ completed = SetOf(d.achievements.value.items)
    /\ ~d.achievements.present => completed = {}
    /\ current_mood = (IF d.current_mood.present THEN d.current_mood.value ELSE "curious")

\* the version tag plays no part in what load_progress does with the file
VersionIgnored(file) ==
    \A v \in VERSIONS :
        load_progress(ret.before, [file EXCEPT !.data.version = v])
            = load_progress(ret.before, file)

----------------------------------------------------------------------------
(* LLMConnector: test_connection and chat.  What the server does with a      *)
(* request is an input: it answers with a status code or the request raises. *)

Status(code) == [kind |-> "status", code |-> code]

Raises(exc) == [kind |-> "raises", exc |-> exc]

\* the exceptions a request can raise: the two chat names, and any other Exception
REQUEST_EXCEPTIONS == {"Timeout", "ConnectionError", "OtherException"}

\* what GET /health can do
HEALTH_OUTCOMES == {Status(200), Status(503)} \cup {Raises(x) : x \in REQUEST_EXCEPTIONS}

\* what response.json() of a 200 answer can be: not JSON, a JSON value that is not
\* an object, an object without "response", an object with a string or a number in it
BODIES ==
    {[json |-> "invalid"], [json |-> "list"],
     [json |-> "dict", response |-> Absent],
     [json |-> "dict", response |-> Field([type |-> "str", text |-> "reply"])],
     [json |-> "dict", response |-> Field([type |-> "int", text |-> "5"])]}

\* what POST /chat can do
POST_OUTCOMES ==
    {[kind |-> "status", code |-> 200, body |-> b] : b \in BODIES}
    \cup {Status(404), Status(500)}
    \cup {Raises(x) : x \in REQUEST_EXCEPTIONS}

\* no request was sent
NotSent == [kind |-> "not sent"]

\* test_connection(): True iff the health request answers 200; any exception of
\* the request is caught here
test_connection(health) == health.kind = "status" /\ health.code = 200

Text(which) == [type |-> "str", text |-> which]

\* chat with an except clause for the two named exceptions only
chat_named_only(message, health, post) ==
    IF ~test_connection(health)
    THEN [returned |-> Text("LLM connection failed"), escaped |-> None,
          requests |-> <<"GET /health">>]
    ELSE IF post.kind = "raises"
    THEN [returned |-> IF post.exc = "Timeout" THEN Text("LLM request timed out")
                       ELSE Text("Cannot connect to LLM server"),
          escaped |-> IF post.exc \in {"Timeout", "ConnectionError"} THEN None
                      ELSE post.exc,
          requests |-> <<"GET /health", "POST /chat">>]
    ELSE [returned |-> Text("LLM error"), escaped |-> None,
          requests |-> <<"GET /health", "POST /chat">>]

\* chat(message): the value returned, the exception leaving the call (None if
\* none) and the requests sent, given what the two requests do
chat(message, health, post) ==
    IF ~test_connection(health)
    THEN [returned |-> Text("LLM connection failed"), escaped |-> None,
          requests |-> <<"GET /health">>]
    ELSE LET sent == <<"GET /health", "POST /chat">> IN
         IF post.kind = "raises"
         THEN [returned |-> CASE post.exc = "Timeout" -> Text("LLM request timed out")
                              [] post.exc = "ConnectionError" ->
                                     Text("Cannot connect to LLM server")
                              [] OTHER -> Text("LLM error: exception"),
               escaped |-> None, requests |-> sent]
         ELSE IF post.code = 200
         THEN IF post.body.json # "dict"
              THEN [returned |-> Text("LLM error: exception"), escaped |-> None,
                    requests |-> sent]
              ELSE [returned |-> IF post.body.response.present
                                 THEN post.body.response.value
                                 ELSE Text("No response from LLM"),
                    escaped |-> None, requests |-> sent]
         ELSE [returned |-> Text("LLM error: status"), escaped |-> None,
               requests |-> sent]

\* await self.llm.chat(message)
Chat(message) ==
    /\ \E health \in HEALTH_OUTCOMES :
       \E post \in (IF test_connection(health) THEN POST_OUTCOMES ELSE {NotSent}) :
       \E out \in {chat(message, health, post)} :
           ret' = [op |-> "chat", message |-> message, health |-> health,
                   post |-> post, returned |-> out.returned,
                   escaped |-> out.escaped, requests |-> out.requests]
    /\ nops' = nops + 1
    /\ UNCHANGED <<skills, total_interactions, completed, current_mood, mood_duration,
                   interaction_count, events, cycle_count, xp_multiplier, hist,
                   save_file, session_start>>

NextChat == \E message \in WORDS : nops < MaxOps /\ Chat(message)

SpecChat == Init /\ [][NextChat]_vars

\* the collaborator failed: the health check did not pass, or the chat request
\* raised or answered with a status other than 200, or its answer could not be used
CollaboratorFailed(r) ==
    \/ ~test_connection(r.health)
    \/ r.post.kind = "raises"
    \/ r.post.code # 200
    \/ r.post.body.json # "dict"

\* C14: whatever the two requests do, no exception leaves chat; when the
\* collaborator fails the call returns a text message; a call sends at most one
\* POST /chat, after its one GET /health, and none when the health check fails.
C14_ChatNeverRaisesNoRetry ==
    ret.op = "chat" =>
        /\ ret.escaped = None
        /\ CollaboratorFailed(ret) => ret.returned.type = "str"
        /\ Occurrences(ret.requests, "POST /chat") <= 1
        /\ Occurrences(ret.requests, "GET /health") = 1
        /\ ~test_connection(ret.health) => Occurrences(ret.requests, "POST /chat") = 0
        /\ test_connection(ret.health) => ret.requests = <<"GET /health", "POST /chat">>

\* a chat request that raised an exception other than the two named ones has ended
\* in a returned text, after one POST
C14_Witness ==
    /\ ret.op = "chat"
    /\ ret.post = Raises("OtherException")
    /\ ret.returned.type = "str"
    /\ ret.requests = <<"GET /health", "POST /chat">>

----------------------------------------------------------------------------
(* AchievementDiary.check_achievements on progression states and awarded sets *)
(* of every kind                                                              *)

\* every skill at the first XP of level `base`, Wisdom at that of level `wisdom`
SkillsAtLevels(base, wisdom) ==
    [s \in SkillSet |->
        LET l == IF s = "Wisdom" THEN wisdom ELSE base
        IN  [xp |-> get_xp_for_level(l), level |-> l]]

\* levels on both sides of the thresholds 10, 9 * 23 >= 200 and 9 * 89 >= 800
DIARY_BASE_LEVELS == {1, 10, 22, 23, 88, 89}

\* Wisdom ahead of the others, on both sides of 50 and 99
DIARY_TOP_LEVELS == {49, 50, 98, 99}

DIARY_INTERACTIONS == {0, 1, 99, 100}

InitDiary ==
    /\ skills \in {SkillsAtLevels(b, b) : b \in DIARY_BASE_LEVELS}
                  \cup {SkillsAtLevels(p[1], p[2]) :
                            p \in {q \in DIARY_BASE_LEVELS \X DIARY_TOP_LEVELS :
                                       q[2] > q[1]}}
    /\ total_interactions \in DIARY_INTERACTIONS
    /\ completed \in SUBSET AchievementIds
    /\ current_mood = InitMood.current_mood
    /\ mood_duration = InitMood.mood_duration
    /\ interaction_count = InitMood.interaction_count
    /\ events = setup_events
    /\ cycle_count = 0
    /\ xp_multiplier = 1
    /\ hist = InitHist(setup_events)
    /\ ret = [op |-> "init"]
    /\ nops = 0
    /\ save_file = NoFile
    /\ session_start = 1

NextDiary == CheckAchievements

SpecDiary == InitDiary /\ [][NextDiary]_vars

\* the predicate of each catalog entry, on the current progression state
C15_Predicate(id) ==
    CASE id = "first_interaction" -> total_interactions >= 1
      [] id = "helpful_100"       -> total_interactions >= 100
      [] id = "level_10_all"      -> \A s \in SkillSet : skills[s].level >= 10
      [] id = "level_50_any"      -> \E s \in SkillSet : skills[s].level >= 50
      [] id = "total_level_200"   -> get_total_level(skills) >= 200
      [] id = "level_99_any"      -> \E s \in SkillSet : skills[s].level >= 99
      [] id = "all_tails"         -> get_unlocked_tails(skills) >= 9

C15_Expected ==
    LET due(id) == id \notin completed /\ C15_Predicate(id)
    IN  SelectSeq(<<"first_interaction", "helpful_100", "level_10_all", "level_50_any",
                    "total_level_200", "level_99_any", "all_tails">>, due)

\* C15: a check_achievements call returns exactly the catalog ids that were not
\* awarded and whose predicate holds, in catalog order, and adds exactly those ids
\* to the awarded set.
C15_CheckAchievementsExact ==
    [][ret'.op = "check_achievements" =>
          /\ ret'.result = C15_Expected
          /\ completed' = completed \cup SetOf(C15_Expected)]_vars

\* a check has returned several ids at once, skipping awarded and unmet ones
C15_Witness ==
    /\ ret.op = "check_achievements"
    /\ ret.result = <<"helpful_100", "level_50_any", "total_level_200">>
    /\ "first_interaction" \in completed
    /\ "level_10_all" \in completed
    /\ "level_99_any" \notin completed

----------------------------------------------------------------------------
(* process_interaction on an engine whose progression stands just below the   *)
(* achievement thresholds (as restored by load_progress into a new engine)    *)

\* the XP a plain message gives Wisdom
BASE_WISDOM_XP == GainAfter("Wisdom", Len(XP_RULES), MSG_PLAIN)

\* every skill BASE_WISDOM_XP short of the level after `base`, Wisdom that short
\* of the level after `wisdom`
SkillsBelowLevels(base, wisdom) ==
    [s \in SkillSet |->
        LET l == IF s = "Wisdom" THEN wisdom ELSE base
        IN  [xp |-> get_xp_for_level(l + 1) - BASE_WISDOM_XP, level |-> l]]

\* <<base, wisdom>>: fresh-like; one level-up short of level 10 in all; three and
\* one level-ups short of total level 200; short of level 50; one level-up short of
\* total level 800; short of level 99
NEAR_LEVELS == {<<1, 1>>, <<10, 9>>, <<22, 22>>, <<23, 15>>, <<1, 49>>, <<88, 95>>,
                <<88, 98>>}

\* interaction counters: none yet, and one short of 100
NEAR_INTERACTIONS == {0, 99}

InitNear ==
    /\ skills \in {SkillsBelowLevels(p[1], p[2]) : p \in NEAR_LEVELS}
    /\ total_interactions \in NEAR_INTERACTIONS
    /\ completed = check_achievements({}, skills, total_interactions).completed
    /\ current_mood = InitMood.current_mood
    /\ mood_duration = InitMood.mood_duration
    /\ interaction_count = InitMood.interaction_count
    /\ events = setup_events
    /\ cycle_count = 0
    /\ xp_multiplier = 1
    /\ hist = InitHist(setup_events)
    /\ ret = [op |-> "init"]
    /\ nops = 0
    /\ save_file = NoFile
    /\ session_start = 1

NextNear ==
    \E content \in MESSAGES :
        nops < MaxOps /\ ProcessInteraction("general", content, {None})

SpecNear == InitNear /\ [][NextNear]_vars

\* C16: after every process_interaction the awarded set holds every achievement
\* whose predicate holds in the resulting state; an achievement whose predicate the
\* call has made true is in the list the call returns; the returned total_level and
\* current_tails are those of the skills after the call's XP.
C16_AchievementsCheckedAfterXp ==
    [][ret'.op = "process_interaction" =>
          /\ \A id \in AchievementIds :
                 /\ C15_Predicate(id)' => id \in completed'
                 /\ (~C15_Predicate(id) /\ C15_Predicate(id)')
                        => \E i \in 1..Len(ret'.result.new_achievements) :
                               ret'.result.new_achievements[i] = id
          /\ total_interactions' = total_interactions + 1
          /\ ret'.result.total_level = get_total_level(skills')
          /\ ret'.result.current_tails = get_unlocked_tails(skills')]_vars

\* one call has taken the counter to 100 and, by its XP, the total level to 800,
\* and has returned both achievements with the new total level and tail count
C16_Witness ==
    /\ ret.op = "process_interaction"
    /\ total_interactions = 100
    /\ ret.result.new_achievements = <<"helpful_100", "all_tails">>
    /\ ret.result.total_level = 800
    /\ ret.result.current_tails = 9

----------------------------------------------------------------------------
(* KitsuneMoodSystem.update_mood called directly, with any interaction types  *)

\* how many update_mood calls are made
MaxMoodCalls == 23

\* the types with a mood of their own, one without, and the default
INTERACTION_TYPES == {"coding", "question", "creative", "analysis", "general"}

MATCHED_TYPES == {"coding", "question", "creative"}

\* mood_system.update_mood(interaction_type).  ret keeps, next to the call, whether
\* it re-picked the mood and two counts over the calls since the last re-pick (or
\* since construction): `since`, all calls up to and including this one, and
\* `matched`, those of a matched type before this one.
UpdateMood(interaction_type) ==
    /\ interaction_count < MaxMoodCalls
    /\ \E pick \in DirectMoodPicks(interaction_type) :
       \E out \in {update_mood(Mood, interaction_type, pick)} :
       LET continuing == ret.op = "update_mood" /\ ~ret.repicked
           repicked == interaction_type \notin MATCHED_TYPES
                       /\ mood_duration + 1 > MOOD_LIMIT
       IN
        /\ current_mood' = out.current_mood
        /\ mood_duration' = out.mood_duration
        /\ interaction_count' = out.interaction_count
        /\ ret' = [op |-> "update_mood", interaction_type |-> interaction_type,
                   repicked |-> repicked,
                   since |-> IF continuing THEN ret.since + 1 ELSE 1,
                   matched |-> IF continuing
                               THEN ret.matched
                                    + (IF ret.interaction_type \in MATCHED_TYPES
                                       THEN 1 ELSE 0)
                               ELSE 0]
    /\ UNCHANGED <<skills, total_interactions, completed, events, cycle_count,
                   xp_multiplier, hist, nops, save_file, session_start>>

NextMood == \E interaction_type \in INTERACTION_TYPES : UpdateMood(interaction_type)

SpecMood == Init /\ [][NextMood]_vars

\* C17: every update_mood call counts; a call of type coding, question or creative
\* sets the mood to focused, helpful or playful and leaves the duration counter
\* incremented; a call of any other type puts the counter to 0 and re-picks the
\* mood among the 7 labels exactly when the incremented counter exceeds 10, which
\* is when the call is at least the 11th of any type since the last re-pick, and
\* otherwise leaves the mood alone and the counter incremented; the mood is always
\* one of the 7 labels.
C17_MoodUpdate ==
    [][ret'.op = "update_mood" =>
          LET t == ret'.interaction_type
              matched == t \in {"coding", "question", "creative"}
              repick == ~matched /\ mood_duration + 1 > 10
          IN  /\ interaction_count' = interaction_count + 1
              /\ t = "coding" => current_mood' = "focused"
              /\ t = "question" => current_mood' = "helpful"
              /\ t = "creative" => current_mood' = "playful"
              /\ matched => mood_duration' = mood_duration + 1
              /\ repick => mood_duration' = 0
              /\ (~matched /\ ~repick) =>
                     /\ current_mood' = current_mood
                     /\ mood_duration' = mood_duration + 1
              /\ repick <=> (~matched /\ ret'.since >= 11)
              /\ ret'.repicked <=> repick
              /\ current_mood' \in {"curious", "helpful", "playful", "wise", "content",
                                    "excited", "focused"}]_vars

\* ten matched calls and then one unmatched call: the eleventh call has re-picked
\* the mood (to one that no type sets) and put the counter back to 0
C17_Witness ==
    /\ ret.op = "update_mood"
    /\ ret.interaction_type = "general"
    /\ ret.repicked
    /\ ret.matched = 10
    /\ ret.since = 11
    /\ mood_duration = 0
    /\ current_mood = "wise"

----------------------------------------------------------------------------
\* C18: on an engine built fresh, after every process_interaction the scheduler's
\* cycle_count equals total_interactions; the scheduled mood update has run once
\* per 10 interactions and the random-event check once per 100 (so each runs on
\* exactly the 10th, resp. 100th, calls), no event has left the list, and the mood
\* system has been updated once per call directly plus once per scheduled run;
\* the tick comes after the call's XP step: what the 100th call's tick does to the
\* multiplier is not in that call's XP drops.
C18_OneTickPerInteraction ==
    /\ cycle_count = total_interactions
    /\ Len(events) = 3
    /\ \A k \in 1..Len(events) : events[k].running
    /\ hist.function[1] = "update_mood" /\ hist.cycles[1] = 10
    /\ hist.function[2] = "check_random_events" /\ hist.cycles[2] = 100
    /\ hist.calls[1] = total_interactions \div 10
    /\ hist.calls[2] = total_interactions \div 100
    /\ interaction_count = total_interactions + (total_interactions \div 10)
    /\ (ret.op = "process_interaction" /\ total_interactions <= 100) =>
           \A i \in 1..Len(ret.result.xp_drops) :
               ret.result.xp_drops[i].amount
                   = DictGet(XpGainsOf[ret.content], ret.result.xp_drops[i].skill_name, 0)

\* the 100th call: the mood update has run 10 times, the random-event check once,
\* and it has doubled the multiplier
C18_Witness ==
    /\ ret.op = "process_interaction"
    /\ total_interactions = 100
    /\ cycle_count = 100
    /\ hist.calls[1] = 10
    /\ hist.calls[2] = 1
    /\ xp_multiplier = 2

----------------------------------------------------------------------------
(* The tail count against every total level, and the all_tails achievement    *)
(* around total level 800                                                     *)

\* <<base, wisdom>>: total levels 9, 792, 800, 801 and 891
TAILS_LEVELS == {<<1, 1>>, <<88, 88>>, <<88, 96>>, <<89, 89>>, <<99, 99>>}

InitTails ==
    /\ skills \in {SkillsAtLevels(p[1], p[2]) : p \in TAILS_LEVELS}
    /\ total_interactions = 0
    /\ completed \in {{}, {"all_tails"}}
    /\ current_mood = InitMood.current_mood
    /\ mood_duration = InitMood.mood_duration
    /\ interaction_count = InitMood.interaction_count
    /\ events = setup_events
    /\ cycle_count = 0
    /\ xp_multiplier = 1
    /\ hist = InitHist(setup_events)
    /\ ret = [op |-> "init"]
    /\ nops = 0
    /\ save_file = NoFile
    /\ session_start = 1

NextTails ==
    \/ /\ ret.op = "init"
       /\ \E total_level \in 0..MaxProbeTotal : CallUnlockedTails(total_level)
    \/ CheckAchievements

SpecTails == InitTails /\ [][NextTails]_vars

\* C19: for every total level the tail count is 1 plus the number of thresholds
\* 9, 50, 100, 200, 350, 500, 650, 800 reached (891 plays no part), so it is 9
\* exactly from total level 800 on and at least 2 from total level 9 on; and a
\* check_achievements call made at total level >= 800 leaves all_tails awarded,
\* returning it if it was not awarded before, whether or not every skill is at 99.
C19_NineTailsFrom800 ==
    [][/\ ret'.op = "get_unlocked_tails" =>
            LET t == ret'.total_level IN
            /\ ret'.result
                 = 1 + Cardinality({x \in {9, 50, 100, 200, 350, 500, 650, 800} : t >= x})
            /\ ret'.result = 9 <=> t >= 800
            /\ t >= 9 => ret'.result >= 2
       /\ ret'.op = "check_achievements" =>
            /\ get_unlocked_tails(skills) = 9 <=> get_total_level(skills) >= 800
            /\ get_unlocked_tails(skills) >= 2
            /\ get_total_level(skills) >= 800 =>
                   /\ "all_tails" \in completed'
                   /\ "all_tails" \notin completed
                          => ret'.result[Len(ret'.result)] = "all_tails"
            /\ get_total_level(skills) < 800 =>
                   ("all_tails" \in completed' <=> "all_tails" \in completed)
      ]_vars

\* all_tails has just been awarded at total level 800, with no skill at level 99
C19_Witness ==
    /\ ret.op = "check_achievements"
    /\ ret.result = <<"level_10_all", "level_50_any", "total_level_200", "all_tails">>
    /\ get_total_level(skills) = 800
    /\ \A s \in SkillSet : skills[s].level < 99

----------------------------------------------------------------------------
(* The engine through a whole period of the multiplier reset: plain messages  *)
(* only, every random draw of the ticks open                                  *)

\* how many interactions are processed (the reset is due every 600 cycles)
MaxEra == 600

NextEra ==
    /\ total_interactions < MaxEra
    /\ ProcessInteraction("general", MSG_PLAIN, {None})

SpecEra == Init /\ [][NextEra]_vars

\* C20: the scheduler holds the mood update (10), the random-event check (100) and
\* the multiplier reset (600), in this order, and each tick runs those that are due
\* in this order; xp_multiplier is always 1 or 2; a tick that takes it to 2 has a
\* cycle count that is a multiple of 100; after a tick whose cycle count is a
\* multiple of 600 it is 1.
C20_MultiplierSchedule ==
    [][ret'.op = "process_interaction" =>
          /\ Len(events') = 3
          /\ events'[1].function = "update_mood" /\ events'[1].cycles = 10
          /\ events'[2].function = "check_random_events" /\ events'[2].cycles = 100
          /\ events'[3].function = "reset_xp_multiplier" /\ events'[3].cycles = 600
          /\ ret'.invoked
               = SelectSeq(<<1, 2, 3>>,
                           LAMBDA id : cycle_count' % events'[id].cycles = 0)
          /\ xp_multiplier' \in {1, 2}
          /\ (xp_multiplier' = 2 /\ xp_multiplier # 2) => cycle_count' % 100 = 0
          /\ cycle_count' % 600 = 0 => xp_multiplier' = 1
      ]_vars

\* the 600th tick has run all three callbacks in order and left the multiplier at
\* 1, the call's XP having still been doubled
C20_Witness ==
    /\ ret.op = "process_interaction"
    /\ cycle_count = 600
    /\ ret.invoked = <<1, 2, 3>>
    /\ xp_multiplier = 1
    /\ ret.result.xp_drops = <<[amount |-> 2 * BASE_WISDOM_XP, skill_name |-> "Wisdom"]>>

----------------------------------------------------------------------------
(* A long run of interactions from each of the progression states that stand  *)
(* just below a threshold                                                     *)

SpecProgress == InitNear /\ [][NextLong]_vars

\* C21: a process_interaction call lowers no skill's xp and no skill's level; it
\* adds to each skill the message's gain for it times the multiplier in force (1 or
\* 2), which for Wisdom is more than nothing; the total level and the tail count
\* do not go down.
C21_ProgressNeverLost ==
    [][ret'.op = "process_interaction" =>
          /\ xp_multiplier \in {1, 2}
          /\ \A s \in SkillSet :
                 /\ skills'[s].xp >= skills[s].xp
                 /\ skills'[s].level >= skills[s].level
                 /\ skills'[s].xp - skills[s].xp
                      = DictGet(XpGainsOf[ret'.content], s, 0) * xp_multiplier
                 /\ DictGet(XpGainsOf[ret'.content], s, 0) >= 0
          /\ skills'["Wisdom"].xp > skills["Wisdom"].xp
          /\ get_total_level(skills') >= get_total_level(skills)
          /\ get_unlocked_tails(skills') >= get_unlocked_tails(skills)
      ]_vars

\* a call made under the doubled multiplier has raised a level, on an engine whose
\* tail count has grown to 9 on the way
C21_Witness ==
    /\ ret.op = "process_interaction"
    /\ cycle_count > 100
    /\ ret.result.xp_drops[Len(ret.result.xp_drops)]
         = [amount |-> 2 * BASE_WISDOM_XP, skill_name |-> "Wisdom"]
    /\ Len(ret.result.level_ups) >= 1
    /\ ret.result.current_tails = 9
    /\ "all_tails" \in completed
    /\ \E s \in SkillSet : skills[s].level < 99

----------------------------------------------------------------------------
(* KitsuneSaveSystem.save_progress, and a new session of the program: the     *)
(* engine runs a long series of interactions, is saved, and a newly started   *)
(* program constructs its engine and loads the file                           *)

\* how many sessions of the program are run
MaxSessions == 2

\* list(s): the elements of a set in any order
ListsOf(s) == {q \in [1..Cardinality(s) -> s] : SetOf(q) = s}

\* what a save_progress call meets: the file is written; open() raises, leaving
\* the file as it is; pickle.dump raises on the file already opened for writing
SAVE_OUTCOMES == {"written", "open raises", "dump raises"}

\* save_progress leaving the mood out of save_data
save_progress_without_mood(e, session, items, file, outcome) ==
    IF outcome = "written"
    THEN [file |-> [kind |-> "pickle", is_dict |-> TRUE,
                    data |-> [version |-> Field("3.0"),
                              timestamp |-> Field("now"),
                              skills |-> Field(e.skills),
                              total_interactions |-> Field(e.total_interactions),
                              achievements |-> Field([iterable |-> TRUE, items |-> items]),
                              current_mood |-> Absent,
                              session_start |-> Field(session)]],
          result |-> TRUE]
    ELSE IF outcome = "open raises" THEN [file |-> file, result |-> FALSE]
    ELSE [file |-> [kind |-> "corrupt"], result |-> FALSE]

\* save_progress(kitsune_ai) on the engine e of session `session`; `items` is
\* list(completed), `file` the save file before the call
save_progress(e, session, items, file, outcome) ==
    IF outcome = "written"
    THEN [file |-> [kind |-> "pickle", is_dict |-> TRUE,
                    data |-> [version |-> Field("3.0"),
                              timestamp |-> Field("now"),
                              skills |-> Field(e.skills),
                              total_interactions |-> Field(e.total_interactions),
                              achievements |-> Field([iterable |-> TRUE, items |-> items]),
                              current_mood |-> Field(e.mood.current_mood),
                              session_start |-> Field(session)]],
          result |-> TRUE]
    ELSE IF outcome = "open raises" THEN [file |-> file, result |-> FALSE]
    ELSE [file |-> [kind |-> "corrupt"], result |-> FALSE]

\* RuneScapeKitsuneAI(): the engine as constructed
FreshEngine ==
    [skills |-> InitSkills, total_interactions |-> 0, completed |-> {},
     mood |-> InitMood, events |-> setup_events, cycle_count |-> 0,
     xp_multiplier |-> 1]

\* self.save_system.save_progress(self.kitsune_ai) after one of the first MaxOps
\* interactions or after the warm-up.  ret keeps the engine as it is at the save.
SaveProgress ==
    /\ ret.op = "process_interaction"
    /\ total_interactions <= MaxOps \/ total_interactions >= WarmUp
    /\ \E outcome \in SAVE_OUTCOMES, items \in ListsOf(completed) :
       \E out \in {save_progress(Engine, session_start, items, save_file, outcome)} :
        /\ save_file' = out.file
        /\ ret' = [op |-> "save_progress", result |-> out.result, engine |-> Engine,
                   session_start |-> session_start]
    /\ UNCHANGED <<skills, total_interactions, completed, current_mood, mood_duration,
                   interaction_count, events, cycle_count, xp_multiplier, hist, nops,
                   session_start>>

\* the program ends after a save and is started again: KitsuneTamagotchi.__init__
\* constructs a new engine and calls load_progress on it
Restart ==
    /\ ret.op = "save_progress"
    /\ session_start < MaxSessions
    /\ \E out \in {load_progress(FreshEngine, save_file)} :
        /\ skills' = out.engine.skills
        /\ total_interactions' = out.engine.total_interactions
        /\ completed' = out.engine.completed
        /\ current_mood' = out.engine.mood.current_mood
        /\ mood_duration' = out.engine.mood.mood_duration
        /\ interaction_count' = out.engine.mood.interaction_count
        /\ events' = out.engine.events
        /\ cycle_count' = out.engine.cycle_count
        /\ xp_multiplier' = out.engine.xp_multiplier
        /\ ret' = [op |-> "load_progress", result |-> out.result,
                   caught |-> out.caught, before |-> FreshEngine,
                   saved |-> ret.engine, saved_ok |-> ret.result,
                   saved_session |-> ret.session_start]
    /\ session_start' = session_start + 1
    /\ hist' = InitHist(setup_events)
    /\ UNCHANGED <<nops, save_file>>

\* the first session is the long run of interactions; a later session that loaded
\* a warmed-up engine goes on with plain messages
NextSave ==
    \/ /\ session_start = 1
       /\ NextLong
    \/ /\ session_start > 1
       /\ total_interactions >= WarmUp
       /\ total_interactions < WarmUp + MaxOps
       /\ ProcessInteraction("general", MSG_PLAIN, {None})
    \/ SaveProgress
    \/ Restart

SpecSave == Init /\ [][NextSave]_vars

\* C22: after a save_progress that returned True on an engine A, the load_progress
\* of the next session returns True and the new engine B has A's skills (xp and
\* level of all 9), interaction counter, awarded set and mood; its scheduler (cycle
\* count, events and their elapsed counters), mood duration and mood interaction
\* counters, multiplier and session start are those of a fresh engine of the new
\* session, so its cycle count is not its interaction counter.
C22_SaveLoadRoundTrip ==
    (ret.op = "load_progress" /\ ret.saved_ok) =>
        /\ ret.result
        /\ DOMAIN skills = SkillSet
        /\ \A s \in SkillSet :
               /\ skills[s].xp = ret.saved.skills[s].xp
               /\ skills[s].level = ret.saved.skills[s].level
        /\ total_interactions = ret.saved.total_interactions
        /\ completed = ret.saved.completed
        /\ current_mood = ret.saved.mood.current_mood
        /\ cycle_count = 0
        /\ events = setup_events
        /\ mood_duration = 0
        /\ interaction_count = 0
        /\ xp_multiplier = 1
        /\ session_start = ret.saved_session + 1
        /\ save_file.data.session_start = Field(ret.saved_session)
        /\ cycle_count # total_interactions

\* an engine saved after more than 100 interactions, with the multiplier doubled, a
\* mood other than the initial one and both interaction achievements, has been
\* loaded into the engine of the next session
C22_Witness ==
    /\ ret.op = "load_progress"
    /\ ret.saved_ok
    /\ ret.saved.xp_multiplier = 2
    /\ ret.saved.cycle_count > 100
    /\ ret.saved.mood.mood_duration > 0
    /\ total_interactions > 100
    /\ completed = {"first_interaction", "helpful_100"}
    /\ current_mood = "wise"
    /\ xp_multiplier = 1


====
